---- MODULE Spec2Model ----
(***************************************************************************)
(* The Composite shape cursor of scale-decode                             *)
(* (scale-decode/src/visitor/types/composite.rs) as a state machine.      *)
(*                                                                         *)
(* The state is one Composite cursor: the byte window it was built over,  *)
(* the not yet decoded tail of that window and the not yet decoded        *)
(* fields.  Each public method is one action.  The methods are operators  *)
(* from a cursor value to a record holding the new cursor and what the    *)
(* call returned, so that a nested composite (a cursor built by the       *)
(* decode engine for a field) runs the same code.  Where an operator      *)
(* makes a nested call, what is done with the outcome is a local operator *)
(* applied to the call.                                                   *)
(*                                                                         *)
(* Spec        decode_item, next, skip_decoding                            *)
(* SpecTuple   the same with as_tuple and pulls from the Tuple returned    *)
(* SpecViews   the same with decode_with_visitor on the field view yielded *)
(* SpecNames   the same with has_unnamed_fields                            *)
(* SpecExample the decode of examples/value_type.rs                        *)
(*                                                                         *)
(* crate::visitor::decode_with_visitor, IgnoreVisitor, Tuple, Variant and  *)
(* the type registry are not part of the two source files; they are        *)
(* modelled from sections 4.1, 4.2, 4.3 and 6 of the specification.        *)
(***************************************************************************)
EXTENDS Integers, Sequences, FiniteSets, TLC

VARIABLES
    bytes,       \* Composite.bytes: the slice given to Composite::new
    item_bytes,  \* Composite.item_bytes: the undecoded tail
    fields,      \* Composite.fields: the fields not yet decoded
    fields0,     \* ghost: the field list given to Composite::new
    last,        \* ghost: the last call, the cursor before it, what it returned,
                 \*        and the Tuple or field view the caller holds from it
    acc          \* ghost: what the calls made so far add up to

vars == <<bytes, item_bytes, fields, fields0, last, acc>>

-----------------------------------------------------------------------------
(* Bounds of the model.                                                    *)

\* longest input slice
MaxLen == 3

\* most fields of the composite under the cursor
MaxFields == 2

\* the byte values inputs are built from: 0 and 4 are the one-byte compact
\* lengths 0 and 1; 201 (0xC9) opens a two-byte compact and, as text, is a
\* UTF-8 lead byte with no continuation byte to follow it
ByteVals == {0, 4, 201}

-----------------------------------------------------------------------------
(* Values.                                                                 *)

\* Option<&str>: None is the empty tuple, Some(n) a one-element tuple
NoName == <<>>

SomeName(n) == <<n>>

\* Result<V, E>
Ok(v) == [ok |-> TRUE, val |-> v, err |-> ""]

Err(e) == [ok |-> FALSE, val |-> <<>>, err |-> e]

\* the unit value () of IgnoreVisitor
Unit == <<>>

\* a Field<PortableForm>: an optional name and the id of its type
Fld(name, ty) == [name |-> name, ty |-> ty]

\* s without its first n elements: the slice &s[n..]
Drop(s, n) == SubSeq(s, n + 1, Len(s))

\* the slice &s[..n]
Take(s, n) == SubSeq(s, 1, n)

\* all sequences over S of length at most n
RECURSIVE SeqsUpTo(_, _)
SeqsUpTo(S, n) ==
    IF n = 0 THEN {<<>>}
    ELSE LET shorter == SeqsUpTo(S, n - 1)
         IN shorter \cup {Append(s, x) : s \in {t \in shorter : Len(t) = n - 1}, x \in S}

-----------------------------------------------------------------------------
(* The type registry (external collaborator: resolve(type_id)).  A small   *)
(* registry with one type of each width class the cursor can meet: two     *)
(* fixed-width primitives, a length-prefixed string and a nested           *)
(* composite; and the types of examples/value_type.rs, u128 and the enum   *)
(* MyEnum.  Any other identifier is one the registry does not hold.        *)

TyU8 == 0

TyU16 == 1

TyStr == 2

TyInner == 3

\* the fields of the nested composite type: a named u8 and an unnamed str
InnerFields == <<Fld(SomeName("x"), TyU8), Fld(NoName, TyStr)>>

TyU128 == 4

\* enum MyEnum { Bar { hi: String, other: u128 } } of examples/value_type.rs
TyMyEnum == 5

\* the alternatives of MyEnum: name, discriminant, fields
MyEnumVariants ==
    << [name |-> "Bar", index |-> 0,
        fields |-> <<Fld(SomeName("hi"), TyStr), Fld(SomeName("other"), TyU128)>>] >>

\* resolve(type_id) -> ShapeDescription | NotFound
Resolve(ty) ==
    CASE ty = TyU8    -> [kind |-> "u8", fields |-> <<>>]
      [] ty = TyU16   -> [kind |-> "u16", fields |-> <<>>]
      [] ty = TyStr   -> [kind |-> "str", fields |-> <<>>]
      [] ty = TyInner -> [kind |-> "composite", fields |-> InnerFields]
      [] ty = TyU128  -> [kind |-> "u128", fields |-> <<>>]
      [] ty = TyMyEnum -> [kind |-> "variant", fields |-> <<>>, variants |-> MyEnumVariants]
      [] OTHER        -> [kind |-> "notfound", fields |-> <<>>]

-----------------------------------------------------------------------------
(* The visitors a caller passes.                                           *)
(*   "Ignore"  IgnoreVisitor: skips nested items, discards results         *)
(*   "Value"   ValueVisitor of examples/value_type.rs: rebuilds the value  *)
(*   "Take0"   a caller's visitor that pulls no item of a nested composite *)
(*   "Take1"   a caller's visitor that pulls one item and abandons it      *)
Visitors == {"Ignore", "Value", "Take0", "Take1"}

\* the visitors the caller of the cursor under test passes to decode_item
\* (IgnoreVisitor reaches it through next and skip_decoding)
CallerVisitors == {"Value", "Take0", "Take1"}

\* little-endian value of a byte slice
RECURSIVE LeValue(_)
LeValue(s) == IF s = <<>> THEN 0 ELSE s[1] + 256 * LeValue(Tail(s))

\* a UTF-8 continuation byte 10xxxxxx
IsCont(b) == b >= 128 /\ b <= 191

\* core::str::from_utf8(s).is_ok()
RECURSIVE Utf8Valid(_)
Utf8Valid(s) ==
    IF s = <<>> THEN TRUE
    ELSE LET b == s[1]
         IN CASE b < 128 -> Utf8Valid(Tail(s))
              [] b >= 194 /\ b <= 223 ->
                    /\ Len(s) >= 2
                    /\ IsCont(s[2])
                    /\ Utf8Valid(Drop(s, 2))
              [] b >= 224 /\ b <= 239 ->
                    /\ Len(s) >= 3
                    /\ IsCont(s[2]) /\ IsCont(s[3])
                    /\ (b = 224 => s[2] >= 160)
                    /\ (b = 237 => s[2] <= 159)
                    /\ Utf8Valid(Drop(s, 3))
              [] b >= 240 /\ b <= 244 ->
                    /\ Len(s) >= 4
                    /\ IsCont(s[2]) /\ IsCont(s[3]) /\ IsCont(s[4])
                    /\ (b = 240 => s[2] >= 144)
                    /\ (b = 244 => s[2] <= 143)
                    /\ Utf8Valid(Drop(s, 4))
              [] OTHER -> FALSE

\* decode_compact_u32(cursor): the value and the bytes used, or
\* InvalidCompactEncoding.  The low two bits of the first byte select the
\* one-, two-, four- or five-byte form; a value that fits a shorter form is
\* rejected.
CompactDecode(data) ==
    LET bad == [ok |-> FALSE, val |-> 0, used |-> 0]
        mode == data[1] % 4
    IN IF data = <<>> THEN bad
       ELSE CASE mode = 0 -> [ok |-> TRUE, val |-> data[1] \div 4, used |-> 1]
              [] mode = 1 ->
                    IF Len(data) < 2 THEN bad
                    ELSE LET x == LeValue(Take(data, 2)) \div 4
                         IN IF x > 63 THEN [ok |-> TRUE, val |-> x, used |-> 2] ELSE bad
              [] mode = 2 ->
                    IF Len(data) < 4 THEN bad
                    ELSE LET x == LeValue(Take(data, 4)) \div 4
                         IN IF x > 16383 THEN [ok |-> TRUE, val |-> x, used |-> 4] ELSE bad
              [] OTHER ->
                    IF data[1] \div 4 # 0 \/ Len(data) < 5 THEN bad
                    ELSE LET x == LeValue(SubSeq(data, 2, 5))
                         IN IF x > 1073741823 THEN [ok |-> TRUE, val |-> x, used |-> 5] ELSE bad

\* Visitor::visit_u8 / visit_u16 / visit_u128
visit_uint(visitor, tag, n) ==
    IF visitor = "Value" THEN Ok(<<tag, n>>) ELSE Ok(Unit)

\* Visitor::visit_str: ValueVisitor calls as_str(), which validates UTF-8
\* lazily; the other visitors do not look at the text
visit_str(visitor, s) ==
    IF visitor = "Value"
    THEN IF Utf8Valid(s) THEN Ok(<<"Str", s>>) ELSE Err("InvalidUtf8")
    ELSE Ok(Unit)

-----------------------------------------------------------------------------
(* The Composite cursor and the decode engine.  They call each other: the  *)
(* cursor decodes a field through the engine, the engine hands a nested    *)
(* composite to the visitor as a cursor of its own.                        *)

RECURSIVE decode_with_visitor(_, _, _)
RECURSIVE decode_item(_, _)
RECURSIVE skip_decoding(_)
RECURSIVE visit_composite(_, _)
RECURSIVE ValueLoop(_, _)
RECURSIVE visit_variant(_, _, _)

\* Composite::new: item_bytes starts as the whole slice
new(data, flds) == [bytes |-> data, item_bytes |-> data, fields |-> flds]

\* Composite::bytes_from_start
bytes_from_start(c) == c.bytes

\* Composite::bytes_from_undecoded
bytes_from_undecoded(c) == c.item_bytes

\* Composite::remaining
remaining(c) == Len(c.fields)

\* Composite::peek_name: None when no field is left or the field is unnamed
peek_name(c) == IF c.fields = <<>> THEN NoName ELSE c.fields[1].name

\* decode_item with `self.item_bytes = *b` left out: the field is dropped,
\* the undecoded tail stays where it was
decode_item_keeps_bytes(c, visitor) ==
    IF c.fields = <<>>
    THEN [c |-> c, some |-> FALSE, res |-> Ok(Unit), calls |-> <<>>]
    ELSE LET field == c.fields[1]
             d == decode_with_visitor(c.item_bytes, field.ty, visitor)
         IN [c |-> [c EXCEPT !.fields = Tail(c.fields)],
             some |-> TRUE,
             res |-> d.res,
             calls |-> <<[field |-> field, visitor |-> visitor, res |-> d.res,
                          used |-> Len(c.item_bytes) - Len(d.rest)]>>]

\* decode_item turning a failed nested decode into the end of the iteration
\* (res.ok() in place of Some(res))
decode_item_err_is_none(c, visitor) ==
    IF c.fields = <<>>
    THEN [c |-> c, some |-> FALSE, res |-> Ok(Unit), calls |-> <<>>]
    ELSE LET field == c.fields[1]
             d == decode_with_visitor(c.item_bytes, field.ty, visitor)
         IN [c |-> [c EXCEPT !.item_bytes = d.rest, !.fields = Tail(c.fields)],
             some |-> d.res.ok,
             res |-> IF d.res.ok THEN d.res ELSE Ok(Unit),
             calls |-> <<[field |-> field, visitor |-> visitor, res |-> d.res,
                          used |-> Len(c.item_bytes) - Len(d.rest)]>>]

\* decode_item re-slicing from the start of the composite: the bytes the
\* nested decode took are counted from bytes, not from item_bytes
decode_item_from_start(c, visitor) ==
    IF c.fields = <<>>
    THEN [c |-> c, some |-> FALSE, res |-> Ok(Unit), calls |-> <<>>]
    ELSE LET field == c.fields[1]
             d == decode_with_visitor(c.item_bytes, field.ty, visitor)
         IN [c |-> [c EXCEPT !.item_bytes = Drop(c.bytes, Len(c.item_bytes) - Len(d.rest)),
                             !.fields = Tail(c.fields)],
             some |-> TRUE,
             res |-> d.res,
             calls |-> <<[field |-> field, visitor |-> visitor, res |-> d.res,
                          used |-> Len(c.item_bytes) - Len(d.rest)]>>]

\* decode_item starting over after a failed nested decode: the undecoded
\* tail is set back to the start of the composite
decode_item_rewinds(c, visitor) ==
    IF c.fields = <<>>
    THEN [c |-> c, some |-> FALSE, res |-> Ok(Unit), calls |-> <<>>]
    ELSE LET field == c.fields[1]
             d == decode_with_visitor(c.item_bytes, field.ty, visitor)
         IN [c |-> [c EXCEPT !.item_bytes = IF d.res.ok THEN d.rest ELSE c.bytes,
                             !.fields = Tail(c.fields)],
             some |-> TRUE,
             res |-> d.res,
             calls |-> <<[field |-> field, visitor |-> visitor, res |-> d.res,
                          used |-> Len(c.item_bytes) - Len(d.rest)]>>]

\* decode_item moving the start of the composite along with the cursor
\* (self.bytes = *b as well)
decode_item_moves_start(c, visitor) ==
    IF c.fields = <<>>
    THEN [c |-> c, some |-> FALSE, res |-> Ok(Unit), calls |-> <<>>]
    ELSE LET field == c.fields[1]
             d == decode_with_visitor(c.item_bytes, field.ty, visitor)
         IN [c |-> [c EXCEPT !.bytes = d.rest, !.item_bytes = d.rest,
                             !.fields = Tail(c.fields)],
             some |-> TRUE,
             res |-> d.res,
             calls |-> <<[field |-> field, visitor |-> visitor, res |-> d.res,
                          used |-> Len(c.item_bytes) - Len(d.rest)]>>]

\* decode_item dropping the field only when its decode succeeded: a field
\* that fails stays first
decode_item_keeps_failed_field(c, visitor) ==
    IF c.fields = <<>>
    THEN [c |-> c, some |-> FALSE, res |-> Ok(Unit), calls |-> <<>>]
    ELSE LET field == c.fields[1]
             d == decode_with_visitor(c.item_bytes, field.ty, visitor)
         IN [c |-> [c EXCEPT !.item_bytes = d.rest,
                             !.fields = IF d.res.ok THEN Tail(c.fields) ELSE c.fields],
             some |-> TRUE,
             res |-> d.res,
             calls |-> <<[field |-> field, visitor |-> visitor, res |-> d.res,
                          used |-> Len(c.item_bytes) - Len(d.rest)]>>]

\* Composite::decode_item.  None when no field is left.  Otherwise the first
\* field is decoded from item_bytes; item_bytes becomes what the nested
\* decode left and the field is dropped, whatever the result was.
\* calls lists the nested decodes made: the field, the visitor, the result
\* and the number of bytes the nested decode took.
decode_item(c, visitor) ==
    IF c.fields = <<>>
    THEN [c |-> c, some |-> FALSE, res |-> Ok(Unit), calls |-> <<>>]
    ELSE LET field == c.fields[1]
             Advance(d) ==
                 [c |-> [c EXCEPT !.item_bytes = d.rest, !.fields = Tail(c.fields)],
                  some |-> TRUE,
                  res |-> d.res,
                  calls |-> <<[field |-> field, visitor |-> visitor, res |-> d.res,
                               used |-> Len(c.item_bytes) - Len(d.rest)]>>]
         IN Advance(decode_with_visitor(c.item_bytes, field.ty, visitor))

\* skip_decoding with `if` in place of `while`: one field is skipped
skip_decoding_once(c) ==
    IF c.fields = <<>>
    THEN [c |-> c, res |-> Ok(Unit), calls |-> <<>>]
    ELSE LET r == decode_item(c, "Ignore")
         IN [c |-> r.c, res |-> IF r.res.ok THEN Ok(Unit) ELSE Err(r.res.err),
             calls |-> r.calls]

\* skip_decoding with the loop condition off by one
\* (`while self.fields.len() > 1`): the last field is left undecoded
RECURSIVE skip_decoding_all_but_last(_)
skip_decoding_all_but_last(c) ==
    IF Len(c.fields) <= 1
    THEN [c |-> c, res |-> Ok(Unit), calls |-> <<>>]
    ELSE LET r == decode_item(c, "Ignore")
         IN IF ~r.res.ok
            THEN [c |-> r.c, res |-> Err(r.res.err), calls |-> r.calls]
            ELSE LET s == skip_decoding_all_but_last(r.c)
                 IN [c |-> s.c, res |-> s.res, calls |-> r.calls \o s.calls]

\* skip_decoding that keeps the first error but finishes the loop before
\* returning it
RECURSIVE skip_decoding_swallow(_)
skip_decoding_swallow(c) ==
    IF c.fields = <<>>
    THEN [c |-> c, res |-> Ok(Unit), calls |-> <<>>]
    ELSE LET r == decode_item(c, "Ignore")
             s == skip_decoding_swallow(r.c)
         IN [c |-> s.c, res |-> IF ~r.res.ok THEN Err(r.res.err) ELSE s.res,
             calls |-> r.calls \o s.calls]

\* Composite::skip_decoding: decode_item(IgnoreVisitor) while a field is
\* left; the first error ends the loop and is returned
skip_decoding(c) ==
    IF c.fields = <<>>
    THEN [c |-> c, res |-> Ok(Unit), calls |-> <<>>]
    ELSE LET Rest(r, s) == [c |-> s.c, res |-> s.res, calls |-> r.calls \o s.calls]
             Loop(r) ==
                 IF ~r.res.ok
                 THEN [c |-> r.c, res |-> Err(r.res.err), calls |-> r.calls]
                 ELSE Rest(r, skip_decoding(r.c))
         IN Loop(decode_item(c, "Ignore"))

\* next reading the name after the field was skipped: the name of the
\* field that follows
next_name_after(c) ==
    IF c.fields = <<>>
    THEN [c |-> c, some |-> FALSE, res |-> Ok(Unit), calls |-> <<>>]
    ELSE LET field == c.fields[1]
             num_bytes_before == Len(c.item_bytes)
             r == decode_item(c, "Ignore")
             name == peek_name(r.c)
             num_bytes_after == Len(r.c.item_bytes)
             res_bytes == Take(c.item_bytes, num_bytes_before - num_bytes_after)
         IN IF ~r.res.ok
            THEN [c |-> r.c, some |-> TRUE, res |-> Err(r.res.err), calls |-> r.calls]
            ELSE [c |-> r.c, some |-> TRUE,
                  res |-> Ok([name |-> name, bytes |-> res_bytes, field |-> field]),
                  calls |-> r.calls]

\* Iterator::next for Composite: None when no field is left; otherwise the
\* field is skipped with IgnoreVisitor and, if that succeeded, a
\* CompositeField over the skipped bytes is returned
next(c) ==
    IF c.fields = <<>>
    THEN [c |-> c, some |-> FALSE, res |-> Ok(Unit), calls |-> <<>>]
    ELSE LET field == c.fields[1]
             name == peek_name(c)
             num_bytes_before == Len(c.item_bytes)
             Yield(r) ==
                 LET num_bytes_after == Len(r.c.item_bytes)
                     res_bytes == Take(c.item_bytes, num_bytes_before - num_bytes_after)
                 IN IF ~r.res.ok
                    THEN [c |-> r.c, some |-> TRUE, res |-> Err(r.res.err),
                          calls |-> r.calls]
                    ELSE [c |-> r.c, some |-> TRUE,
                          res |-> Ok([name |-> name, bytes |-> res_bytes, field |-> field]),
                          calls |-> r.calls]
         IN Yield(decode_item(c, "Ignore"))

\* CompositeField::name
CompositeField_name(f) == f.name

\* CompositeField::bytes
CompositeField_bytes(f) == f.bytes

\* CompositeField::type_id
CompositeField_type_id(f) == f.field.ty

\* a caller pulling up to k items with decode_item(visitor), stopping at
\* None or at the first error, as the loop of ValueVisitor::visit_composite
\* does; ok tells that no item failed
RECURSIVE DecodeN(_, _, _)
DecodeN(c, visitor, k) ==
    IF k = 0 THEN [c |-> c, ok |-> TRUE]
    ELSE LET r == decode_item(c, visitor)
         IN IF ~r.some THEN [c |-> r.c, ok |-> TRUE]
            ELSE IF ~r.res.ok THEN [c |-> r.c, ok |-> FALSE]
            ELSE DecodeN(r.c, visitor, k - 1)

\* the loop of ValueVisitor pairing each value with the name read after the
\* item was decoded: the name of the field that follows
RECURSIVE ValueLoop_name_after(_, _)
ValueLoop_name_after(c, vals) ==
    LET r == decode_item(c, "Value")
        name == peek_name(r.c)
    IN IF ~r.some THEN [res |-> Ok(<<"Composite", vals>>), c |-> c]
       ELSE IF ~r.res.ok THEN [res |-> Err(r.res.err), c |-> r.c]
       ELSE ValueLoop_name_after(r.c, Append(vals, <<name, r.res.val>>))

\* ValueVisitor::visit_composite: decode_item(ValueVisitor) until None,
\* pairing each value with the field's name; the first error is returned
ValueLoop(c, vals) ==
    LET name == peek_name(c)
        Push(r) ==
            IF ~r.some THEN [res |-> Ok(<<"Composite", vals>>), c |-> c]
            ELSE IF ~r.res.ok THEN [res |-> Err(r.res.err), c |-> r.c]
            ELSE ValueLoop(r.c, Append(vals, <<name, r.res.val>>))
    IN Push(decode_item(c, "Value"))

\* Visitor::visit_composite of each visitor: what it returns and the state
\* it leaves the cursor in
visit_composite(visitor, c) ==
    LET Skipped(s) == [res |-> s.res, c |-> s.c]
        Taken(r) == [res |-> IF r.some /\ ~r.res.ok THEN Err(r.res.err) ELSE Ok(Unit),
                     c |-> r.c]
    IN CASE visitor = "Value" -> ValueLoop(c, <<>>)
         [] visitor = "Ignore" -> Skipped(skip_decoding(c))
         [] visitor = "Take1" -> Taken(decode_item(c, "Take1"))
         [] OTHER -> [res |-> Ok(Unit), c |-> c]

\* Visitor::visit_variant of each visitor, given the name of the matched
\* alternative and the cursor over its fields.  ValueVisitor runs the loop
\* of visit_composite and returns Value::Variant(name, vals).
visit_variant(visitor, name, c) ==
    LET Named(l) ==
            [res |-> IF visitor = "Value" /\ l.res.ok
                     THEN Ok(<<"Variant", name, l.res.val[2]>>)
                     ELSE l.res,
             c |-> l.c]
    IN Named(visit_composite(visitor, c))

\* crate::visitor::decode_with_visitor(data, ty_id, types, visitor): the
\* visitor's result and the bytes left.  A primitive is taken from the
\* front of data and then given to the visitor.  A composite is given to
\* the visitor as a cursor; whatever the visitor left undecoded is skipped
\* afterwards, and data moves to the bytes after the composite.
decode_with_visitor(data, ty, visitor) ==
    LET shape == Resolve(ty)
        Skipped(v, s) ==
            IF ~s.res.ok
            THEN [res |-> Err(s.res.err), rest |-> data]
            ELSE [res |-> v.res, rest |-> bytes_from_undecoded(s.c)]
        Visited(v) == Skipped(v, skip_decoding(v.c))
    IN CASE shape.kind = "notfound" -> [res |-> Err("TypeIdNotFound"), rest |-> data]
         [] shape.kind = "u8" ->
               IF Len(data) < 1
               THEN [res |-> Err("NotEnoughBytes"), rest |-> data]
               ELSE [res |-> visit_uint(visitor, "U8", data[1]), rest |-> Drop(data, 1)]
         [] shape.kind = "u16" ->
               IF Len(data) < 2
               THEN [res |-> Err("NotEnoughBytes"), rest |-> data]
               ELSE [res |-> visit_uint(visitor, "U16", LeValue(Take(data, 2))),
                     rest |-> Drop(data, 2)]
         [] shape.kind = "u128" ->
               IF Len(data) < 16
               THEN [res |-> Err("NotEnoughBytes"), rest |-> data]
               ELSE [res |-> visit_uint(visitor, "U128", LeValue(Take(data, 16))),
                     rest |-> Drop(data, 16)]
         [] shape.kind = "str" ->
               LET n == CompactDecode(data)
               IN IF ~n.ok
                  THEN [res |-> Err("InvalidCompactEncoding"), rest |-> data]
                  ELSE IF Len(data) - n.used < n.val
                  THEN [res |-> Err("NotEnoughBytes"), rest |-> data]
                  ELSE [res |-> visit_str(visitor, SubSeq(data, n.used + 1, n.used + n.val)),
                        rest |-> Drop(data, n.used + n.val)]
         [] shape.kind = "variant" ->
               IF Len(data) < 1
               THEN [res |-> Err("NotEnoughBytes"), rest |-> data]
               ELSE LET found == {i \in 1..Len(shape.variants) :
                                     shape.variants[i].index = data[1]}
                    IN IF found = {}
                       THEN [res |-> Err("VariantNotFound"), rest |-> Drop(data, 1)]
                       ELSE LET var == shape.variants[CHOOSE i \in found : TRUE]
                            IN Visited(visit_variant(visitor, var.name,
                                                     new(Drop(data, 1), var.fields)))
         [] OTHER ->
               Visited(visit_composite(visitor, new(data, shape.fields)))

\* CompositeField::decode_with_visitor decoding through the view's own
\* slice (&mut self.bytes): the view is left at the bytes after the value
CompositeField_decode_advances(f, visitor) ==
    LET d == decode_with_visitor(f.bytes, f.field.ty, visitor)
    IN [f |-> [f EXCEPT !.bytes = d.rest], res |-> d.res,
        calls |-> <<[field |-> f.field, visitor |-> visitor, res |-> d.res,
                     used |-> Len(f.bytes) - Len(d.rest)]>>]

\* CompositeField::decode_with_visitor passing IgnoreVisitor on, whatever
\* visitor it was given
CompositeField_decode_ignoring(f, visitor) ==
    LET d == decode_with_visitor(f.bytes, f.field.ty, "Ignore")
    IN [f |-> f, res |-> d.res,
        calls |-> <<[field |-> f.field, visitor |-> visitor, res |-> d.res,
                     used |-> Len(f.bytes) - Len(d.rest)]>>]

\* CompositeField::decode_with_visitor(&self, visitor): the bytes of the
\* view are decoded as the field's type through a cursor of the call's own;
\* the view is read, not changed
CompositeField_decode_with_visitor(f, visitor) ==
    LET Decoded(d) ==
            [f |-> f, res |-> d.res,
             calls |-> <<[field |-> f.field, visitor |-> visitor, res |-> d.res,
                          used |-> Len(f.bytes) - Len(d.rest)]>>]
    IN Decoded(decode_with_visitor(f.bytes, f.field.ty, visitor))

\* the type ids of a field list, names left out
TypeIds(flds) == [i \in 1..Len(flds) |-> flds[i].ty]

\* Tuple::new: a cursor over data and the fields, which a Tuple knows by
\* position alone
Tuple_new(data, flds) == [bytes |-> data, item_bytes |-> data, fields |-> TypeIds(flds)]

\* Tuple::bytes_from_undecoded
Tuple_bytes_from_undecoded(t) == t.item_bytes

\* Tuple::remaining
Tuple_remaining(t) == Len(t.fields)

\* Tuple::decode_item: as Composite::decode_item, on the Tuple's own cursor
Tuple_decode_item(t, visitor) ==
    IF t.fields = <<>>
    THEN [t |-> t, some |-> FALSE, res |-> Ok(Unit)]
    ELSE LET Advance(d) ==
                 [t |-> [t EXCEPT !.item_bytes = d.rest, !.fields = Tail(t.fields)],
                  some |-> TRUE, res |-> d.res]
         IN Advance(decode_with_visitor(t.item_bytes, t.fields[1], visitor))

\* has_unnamed_fields with all in place of any: true of a cursor with no
\* field left
has_unnamed_fields_all(c) ==
    [c |-> c, res |-> \A i \in 1..Len(c.fields) : c.fields[i].name = NoName]

\* Composite::has_unnamed_fields: some remaining field has no name; the
\* Composite is read, not changed
has_unnamed_fields(c) ==
    [c |-> c, res |-> \E i \in 1..Len(c.fields) : c.fields[i].name = NoName]

\* as_tuple handing the Tuple the whole slice (self.bytes in place of
\* self.item_bytes)
as_tuple_from_start(c) ==
    [c |-> c, tuple |-> Tuple_new(c.bytes, c.fields)]

\* Composite::as_tuple: a Tuple over the undecoded bytes and the remaining
\* fields; the Composite is read, not changed
as_tuple(c) ==
    [c |-> c, tuple |-> Tuple_new(c.item_bytes, c.fields)]

-----------------------------------------------------------------------------
(* The state machine: one Composite cursor and the calls made on it.       *)

\* the fields a composite under the cursor is made of
FieldPool ==
    { Fld(SomeName("a"), TyU8), Fld(NoName, TyU16), Fld(SomeName("s"), TyStr),
      Fld(SomeName("c"), TyInner) }

\* the cursor the state holds
cursor == [bytes |-> bytes, item_bytes |-> item_bytes, fields |-> fields]

\* ghost record of a call: the method, the visitor passed, the cursor before
\* the call, whether it returned Some (skip_decoding: always), the result
\* and the nested decodes made
Call(op, visitor, pre, r) ==
    [op |-> op, visitor |-> visitor, pre |-> pre, some |-> r.some, res |-> r.res,
     calls |-> r.calls]

\* sum of a sequence of numbers
RECURSIVE Sum(_)
Sum(s) == IF s = <<>> THEN 0 ELSE s[1] + Sum(Tail(s))

\* ghost totals over the calls that decoded, after one more of them:
\*   total         the bytes the nested decodes reported to have taken
\*   gone          the bytes that left the undecoded tail, call after call
\*   byDecodeItem  every such call was a decode_item call
\*   byNextOk      every such call was a next call that returned Ok
\*   views         the bytes of the views yielded, while byNextOk holds
\*   failed        one of the calls returned an error
\*   items         the number of decode_item and next calls among them, that
\*                 is, of those that returned Some
Account(op, pre, r) ==
    LET nextOk == acc.byNextOk /\ op = "next" /\ r.res.ok
    IN [total |-> acc.total + Sum([i \in 1..Len(r.calls) |-> r.calls[i].used]),
        gone |-> acc.gone \o Take(pre.item_bytes, Len(pre.item_bytes) - Len(r.c.item_bytes)),
        byDecodeItem |-> acc.byDecodeItem /\ op = "decode_item",
        byNextOk |-> nextOk,
        views |-> IF nextOk THEN acc.views \o r.res.val.bytes ELSE <<>>,
        failed |-> acc.failed \/ ~r.res.ok,
        items |-> acc.items + IF op \in {"decode_item", "next"} THEN 1 ELSE 0]

\* the effect of a call on the state
Apply(op, visitor, r) ==
    /\ item_bytes' = r.c.item_bytes
    /\ fields' = r.c.fields
    /\ bytes' = r.c.bytes
    /\ last' = Call(op, visitor, cursor, r)
    /\ acc' = IF r.calls = <<>> THEN acc ELSE Account(op, cursor, r)
    /\ UNCHANGED fields0

\* ghost: no call has been made on the cursor yet
NoCall ==
    [op |-> "new", visitor |-> "", pre |-> new(<<>>, <<>>), some |-> FALSE,
     res |-> Ok(Unit), calls |-> <<>>]

\* a cursor fresh from Composite::new over any input slice and field list
Init ==
    /\ bytes \in SeqsUpTo(ByteVals, MaxLen)
    /\ fields0 \in SeqsUpTo(FieldPool, MaxFields)
    /\ item_bytes = bytes
    /\ fields = fields0
    /\ last = NoCall
    /\ acc = [total |-> 0, gone |-> <<>>, byDecodeItem |-> TRUE, byNextOk |-> TRUE,
              views |-> <<>>, failed |-> FALSE, items |-> 0]

\* the caller calls decode_item with one of its visitors
DecodeItem ==
    \E visitor \in CallerVisitors : Apply("decode_item", visitor, decode_item(cursor, visitor))

\* the caller calls Iterator::next
Next_ ==
    Apply("next", "Ignore", next(cursor))

\* the caller calls skip_decoding
SkipDecoding ==
    LET Returned(s) == [c |-> s.c, some |-> TRUE, res |-> s.res, calls |-> s.calls]
    IN Apply("skip_decoding", "Ignore", Returned(skip_decoding(cursor)))

Next == DecodeItem \/ Next_ \/ SkipDecoding

Spec == Init /\ [][Next]_vars

\* ghost record of a call that returned, or was made on, an object the
\* caller holds besides the cursor: self is that object before the call
\* (nothing for the call that returned it), obj the object after
CallOn(op, visitor, pre, r, self, obj) ==
    [op |-> op, visitor |-> visitor, pre |-> pre, some |-> r.some, res |-> r.res,
     calls |-> r.calls, self |-> self, obj |-> obj]

\* the caller calls as_tuple and holds the Tuple returned
AsTuple ==
    LET r == as_tuple(cursor)
    IN /\ item_bytes' = r.c.item_bytes
       /\ fields' = r.c.fields
       /\ bytes' = r.c.bytes
       /\ last' = CallOn("as_tuple", "", cursor, [some |-> TRUE, res |-> Ok(Unit), calls |-> <<>>],
                         <<>>, r.tuple)
       /\ UNCHANGED <<fields0, acc>>

\* the last call left the caller holding a Tuple
HoldsTuple == last.op \in {"as_tuple", "Tuple::decode_item"}

\* the visitors passed to the Tuple: ValueVisitor, as its visit_tuple does
TupleVisitors == {"Value"}

\* the caller pulls an item from the Tuple it holds
TupleDecodeItem ==
    /\ HoldsTuple
    /\ \E visitor \in TupleVisitors :
          LET Pulled(r) ==
                  CallOn("Tuple::decode_item", visitor, cursor,
                         [some |-> r.some, res |-> r.res, calls |-> <<>>],
                         last.obj, r.t)
          IN last' = Pulled(Tuple_decode_item(last.obj, visitor))
    /\ UNCHANGED <<bytes, item_bytes, fields, fields0, acc>>

\* the last call left the caller holding a field view
HoldsView ==
    \/ last.op = "next" /\ last.some /\ last.res.ok
    \/ last.op = "CompositeField::decode_with_visitor"

\* the field view the caller holds
HeldView == IF last.op = "next" THEN last.res.val ELSE last.obj

\* the caller decodes the field view it holds with a visitor
ViewDecode ==
    /\ HoldsView
    /\ \E visitor \in Visitors :
          LET Decoded(r) ==
                  CallOn("CompositeField::decode_with_visitor", visitor, cursor,
                         [some |-> TRUE, res |-> r.res, calls |-> r.calls],
                         HeldView, r.f)
          IN last' = Decoded(CompositeField_decode_with_visitor(HeldView, visitor))
    /\ UNCHANGED <<bytes, item_bytes, fields, fields0, acc>>

\* the caller calls has_unnamed_fields
HasUnnamedFields ==
    LET r == has_unnamed_fields(cursor)
    IN /\ item_bytes' = r.c.item_bytes
       /\ fields' = r.c.fields
       /\ bytes' = r.c.bytes
       /\ last' = CallOn("has_unnamed_fields", "", cursor,
                         [some |-> TRUE, res |-> Ok(r.res), calls |-> <<>>], <<>>, <<>>)
       /\ UNCHANGED <<fields0, acc>>

\* the calls on the cursor, as_tuple among them, and on the Tuple returned
NextTuple == Next \/ AsTuple \/ TupleDecodeItem

SpecTuple == Init /\ [][NextTuple]_vars

\* the calls on the cursor and on the field views next yields
NextViews == Next \/ ViewDecode

SpecViews == Init /\ [][NextViews]_vars

\* the calls on the cursor, has_unnamed_fields among them
NextNames == Next \/ HasUnnamedFields

SpecNames == Init /\ [][NextNames]_vars

-----------------------------------------------------------------------------
(* The run of examples/value_type.rs: a value of MyEnum is encoded and     *)
(* the bytes are decoded with ValueVisitor.  The decode is also run on     *)
(* other values of the type, on every prefix of an encoding and under an   *)
(* unknown discriminant.                                                   *)

\* the bytes of "hello"
Hello == <<104, 101, 108, 108, 111>>

\* the texts put into the field hi: "hello", "", "hi" and one byte that is
\* not UTF-8
ExampleStrs == {Hello, <<>>, <<104, 105>>, <<255>>}

\* the numbers put into the field other
ExampleNums == {123, 0, 65537}

\* the first bytes tried: the discriminant of Bar and one of no alternative
ExampleTags == {0, 1}

\* n as w little-endian bytes
RECURSIVE LeBytes(_, _)
LeBytes(n, w) == IF w = 0 THEN <<>> ELSE <<n % 256>> \o LeBytes(n \div 256, w - 1)

\* String::encode for a text shorter than 64 bytes: the length as a
\* one-byte compact integer, then the bytes
EncodeStr(s) == <<4 * Len(s)>> \o s

\* MyEnum::Bar { hi, other }.encode(), with the discriminant given
EncodeBar(tag, hi, other) == <<tag>> \o EncodeStr(hi) \o LeBytes(other, 16)

\* the value the example asserts for Bar { hi, other }
BarValue(hi, other) ==
    <<"Variant", "Bar", << <<SomeName("hi"), <<"Str", hi>> >>,
                           <<SomeName("other"), <<"U128", other>> >> >> >>

\* the inputs of the decode: the prefixes of the encodings
ExampleInputs ==
    UNION { { Take(EncodeBar(tag, hi, other), n) :
                n \in 0..Len(EncodeBar(tag, hi, other)) } :
            tag \in ExampleTags, hi \in ExampleStrs, other \in ExampleNums }

\* the state before main calls decode: the input in bytes, no Composite
InitExample ==
    /\ bytes \in ExampleInputs
    /\ item_bytes = bytes
    /\ fields0 = <<>>
    /\ fields = <<>>
    /\ last = NoCall
    /\ acc = [total |-> 0, gone |-> <<>>, byDecodeItem |-> TRUE, byNextOk |-> TRUE,
              views |-> <<>>, failed |-> FALSE, items |-> 0]

\* scale_decode::decode(&mut &*bytes, type_id, &types, ValueVisitor): the
\* result is kept in last, the byte cursor after the call in item_bytes
Decode ==
    /\ last = NoCall
    /\ LET Returned(d) ==
               /\ item_bytes' = d.rest
               /\ last' = Call("decode", "Value", cursor,
                               [some |-> TRUE, res |-> d.res, calls |-> <<>>])
       IN Returned(decode_with_visitor(item_bytes, TyMyEnum, "Value"))
    /\ UNCHANGED <<bytes, fields, fields0, acc>>

SpecExample == InitExample /\ [][Decode]_vars

-----------------------------------------------------------------------------
(* The wire format, as a reference the cursor is compared against: where   *)
(* the encoding of a value of a type ends, told from the shape alone.      *)

RECURSIVE EncodedLen(_, _)
RECURSIVE FieldsLen(_, _)

\* the number of bytes the encoding of a value of type ty takes at the
\* front of data; -1 when data does not start with such an encoding
EncodedLen(ty, data) ==
    LET shape == Resolve(ty)
    IN CASE shape.kind = "u8" -> IF Len(data) >= 1 THEN 1 ELSE -1
         [] shape.kind = "u16" -> IF Len(data) >= 2 THEN 2 ELSE -1
         [] shape.kind = "str" ->
               LET n == CompactDecode(data)
               IN IF n.ok /\ Len(data) - n.used >= n.val THEN n.used + n.val ELSE -1
         [] shape.kind = "composite" -> FieldsLen(shape.fields, data)
         [] OTHER -> -1

\* the same for a list of fields encoded one after the other
FieldsLen(flds, data) ==
    IF flds = <<>> THEN 0
    ELSE LET n == EncodedLen(flds[1].ty, data)
             m == FieldsLen(Tail(flds), Drop(data, n))
         IN IF n < 0 \/ m < 0 THEN -1 ELSE n + m

\* data starts with the encodings of flds
WellFormed(flds, data) == FieldsLen(flds, data) >= 0

\* the bytes that follow the encodings of flds in data; a value that is no
\* byte slice when data does not start with them
AfterFields(data, flds) ==
    IF WellFormed(flds, data) THEN Drop(data, FieldsLen(flds, data)) ELSE <<-1>>

\* the bytes of bytes_from_start() that are no longer in bytes_from_undecoded()
Consumed == Take(bytes, Len(bytes) - Len(item_bytes))

\* the last call returned an error
Failed == last.some /\ ~last.res.ok

\* the last call returned Some(Ok(..)) (skip_decoding: Ok(()))
Succeeded == last.some /\ last.res.ok

-----------------------------------------------------------------------------
(* C1.  Whenever remaining() = 0, bytes_from_undecoded() is the bytes that *)
(* follow the composite's encoding: bytes_from_start() without the         *)
(* encodings of all the fields the composite was built with.  This is the  *)
(* claim as stated, for every reachable state, states reached through      *)
(* failed calls included.  It does not hold: a failed decode_item drops    *)
(* the field without its bytes (C2), so the cursor runs out of fields      *)
(* while bytes_from_undecoded() is not at the end of any encoding.         *)
C1_ExhaustedIsAfterEncoding ==
    remaining(cursor) = 0 => bytes_from_undecoded(cursor) = AfterFields(bytes, fields0)

(* C2.  A call that returns an error leaves remaining() and                *)
(* bytes_from_undecoded() as they were before the failing field's decode   *)
(* was attempted.  For decode_item and next that is the cursor before the  *)
(* call; for skip_decoding it is the cursor after the fields skipped       *)
(* successfully, the failing field still in place.  This is the claim as   *)
(* stated; decode_item drops the field (and keeps what the nested decode   *)
(* left of the bytes) whatever the result, so it does not hold.            *)
C2_ErrorConsumesNothing ==
    Failed =>
        LET done == Len(last.calls) - 1
            took == Sum([i \in 1..done |-> last.calls[i].used])
        IN /\ remaining(cursor) = remaining(last.pre) - done
           /\ bytes_from_undecoded(cursor) = Drop(last.pre.item_bytes, took)

(* C3.  A decode_item call that returns Some(Ok(..)) on a cursor with      *)
(* n > 0 remaining fields made exactly one nested decode, of the type of   *)
(* the first remaining field with the visitor passed, and returned its     *)
(* result; afterwards remaining() = n - 1, fields() is the previous list   *)
(* without its first element, and bytes_from_undecoded() is the previous   *)
(* undecoded slice without the bytes that nested decode took from its      *)
(* front.                                                                  *)
C3_DecodeItemAdvancesByOne ==
    (last.op = "decode_item" /\ Succeeded) =>
        LET pre == last.pre
            d == decode_with_visitor(pre.item_bytes, pre.fields[1].ty, last.visitor)
            took == Len(pre.item_bytes) - Len(d.rest)
        IN /\ remaining(pre) > 0
           /\ Len(last.calls) = 1
           /\ last.calls[1].field = pre.fields[1]
           /\ last.calls[1].visitor = last.visitor
           /\ last.calls[1].used = took
           /\ last.res = d.res
           /\ remaining(cursor) = remaining(pre) - 1
           /\ fields = Tail(pre.fields)
           /\ took >= 0
           /\ bytes_from_undecoded(cursor) = Drop(pre.item_bytes, took)
           /\ bytes_from_start(cursor) = pre.bytes

\* a decode_item call succeeded on the first of two fields and took bytes
C3_Witness ==
    /\ last.op = "decode_item" /\ Succeeded
    /\ remaining(last.pre) = 2 /\ remaining(cursor) = 1
    /\ last.calls[1].used > 0

(* C4.  decode_item returns None exactly when remaining() = 0 before the   *)
(* call; a call that returns None makes no nested decode (the visitor is   *)
(* not invoked) and leaves remaining(), fields(), bytes_from_start() and   *)
(* bytes_from_undecoded() as they were, also when it is called again.      *)
C4_NoneIffExhausted ==
    last.op = "decode_item" =>
        /\ ~last.some <=> remaining(last.pre) = 0
        /\ ~last.some =>
              /\ last.calls = <<>>
              /\ remaining(cursor) = remaining(last.pre)
              /\ fields = last.pre.fields
              /\ bytes_from_start(cursor) = bytes_from_start(last.pre)
              /\ bytes_from_undecoded(cursor) = bytes_from_undecoded(last.pre)

\* decode_item returned None on a cursor that had decoded its two fields
\* before
C4_Witness ==
    /\ last.op = "decode_item" /\ ~last.some
    /\ Len(fields0) = 2 /\ acc.total > 0

(* C5.  On a cursor iterated to exhaustion by decode_item calls alone, the *)
(* byte counts the nested decodes of the calls took add up to              *)
(* bytes_from_start().len() - bytes_from_undecoded().len(), and the bytes  *)
(* that left the undecoded tail call by call, put one after the other, are *)
(* a prefix of bytes_from_start() followed by bytes_from_undecoded(): no   *)
(* byte is skipped or taken twice.                                         *)
C5_ConsumedIsSumOfItems ==
    (remaining(cursor) = 0 /\ acc.byDecodeItem) =>
        /\ acc.total = Len(bytes_from_start(cursor)) - Len(bytes_from_undecoded(cursor))
        /\ acc.gone = Consumed
        /\ bytes_from_start(cursor) = Consumed \o bytes_from_undecoded(cursor)
        /\ (last.op = "decode_item" /\ last.some) =>
              last.calls[1].used
                  = Len(last.pre.item_bytes) - Len(bytes_from_undecoded(cursor))

\* two fields were decoded by decode_item calls, each taking bytes
C5_Witness ==
    /\ remaining(cursor) = 0 /\ acc.byDecodeItem /\ Len(fields0) = 2
    /\ last.op = "decode_item" /\ Succeeded /\ ~acc.failed
    /\ last.calls[1].used > 0
    /\ acc.total > last.calls[1].used

(* C6.  Skipping and decoding agree on the bytes consumed.  From every     *)
(* reachable cursor and for every k, decoding the first k remaining items  *)
(* with the value-building visitor and then calling skip_decoding() leaves *)
(* the same bytes_from_undecoded() as decoding every remaining item with   *)
(* the value-building visitor, whenever both succeed (k = 0 is             *)
(* skip_decoding() alone); and a skip_decoding() call that was made and    *)
(* returned Ok left the cursor where the full decode would have.           *)
C6_SkipAgreesWithDecode ==
    /\ \A k \in 0..remaining(cursor) :
          LET part == DecodeN(cursor, "Value", k)
              rest == skip_decoding(part.c)
              full == DecodeN(cursor, "Value", remaining(cursor))
          IN (part.ok /\ rest.res.ok /\ full.ok) =>
                /\ bytes_from_undecoded(rest.c) = bytes_from_undecoded(full.c)
                /\ remaining(rest.c) = remaining(full.c)
    /\ (last.op = "skip_decoding" /\ Succeeded) =>
          LET full == DecodeN(last.pre, "Value", remaining(last.pre))
          IN full.ok =>
                /\ bytes_from_undecoded(cursor) = bytes_from_undecoded(full.c)
                /\ remaining(cursor) = remaining(full.c)

\* skip_decoding() skipped two fields, each taking bytes, which the
\* value-building visitor decodes too
C6_Witness ==
    /\ last.op = "skip_decoding" /\ Succeeded
    /\ remaining(last.pre) = 2
    /\ \A i \in 1..2 : last.calls[i].used > 0
    /\ DecodeN(last.pre, "Value", remaining(last.pre)).ok

C8_AbandonedNestedIsSkipped ==
    (/\ last.op = "decode_item" /\ Succeeded
     /\ last.visitor \in {"Take0", "Take1"}
     /\ Resolve(last.pre.fields[1].ty).kind = "composite") =>
        LET pre == last.pre
            w == EncodedLen(pre.fields[1].ty, pre.item_bytes)
        IN /\ w >= 0
           /\ bytes_from_undecoded(cursor) = Drop(pre.item_bytes, w)
           /\ bytes_from_undecoded(cursor)
                 = bytes_from_undecoded(decode_item(pre, "Ignore").c)

\* the visitor pulled none of the two nested items, which take two bytes
\* or more, and an outer field is left to decode after them
C8_Witness ==
    /\ last.op = "decode_item" /\ Succeeded
    /\ last.visitor = "Take0"
    /\ Resolve(last.pre.fields[1].ty).kind = "composite"
    /\ last.calls[1].used >= 2
    /\ remaining(cursor) = 1

C10_ErrorsPropagateUnchanged ==
    /\ (last.op = "decode_item" /\ last.some) =>
          last.res = decode_with_visitor(last.pre.item_bytes, last.pre.fields[1].ty,
                                         last.visitor).res
    /\ (last.op = "next" /\ last.some) =>
          LET d == decode_with_visitor(last.pre.item_bytes, last.pre.fields[1].ty, "Ignore")
          IN /\ last.res.ok <=> d.res.ok
             /\ ~last.res.ok => last.res = d.res
    /\ last.op = "skip_decoding" =>
          LET pre == last.pre
              n == Len(last.calls)
              took == Sum([i \in 1..(n - 1) |-> last.calls[i].used])
          IN /\ \A i \in 1..(n - 1) : last.calls[i].res.ok
             /\ last.res.ok => \A i \in 1..n : last.calls[i].res.ok
             /\ ~last.res.ok =>
                   /\ n >= 1
                   /\ ~last.calls[n].res.ok
                   /\ last.res = last.calls[n].res
                   /\ last.res = decode_with_visitor(Drop(pre.item_bytes, took),
                                                     pre.fields[n].ty, "Ignore").res
                   /\ remaining(cursor) = remaining(pre) - n

\* skip_decoding() failed on the first of two fields and did not go on to
\* the second, whose skip would have succeeded
C10_Witness ==
    /\ last.op = "skip_decoding" /\ Failed
    /\ remaining(last.pre) = 2 /\ Len(last.calls) = 1
    /\ remaining(cursor) = 1
    /\ decode_with_visitor(item_bytes, fields[1].ty, "Ignore").res.ok

(* C11.  No byte content makes a cursor operation index out of bounds.    *)
(* In every reachable state, for the call that is made next with any      *)
(* visitor: decode_item reads fields[0] and takes fields[1..] only when a  *)
(* field is left, and returns None otherwise; the nested decode never      *)
(* leaves more bytes than it was given, so in Iterator::next               *)
(* num_bytes_before - num_bytes_after does not underflow and is at most    *)
(* the length of item_bytes, the slice it indexes.  The same held for the  *)
(* call that led to this state and for each nested decode it made.         *)
C11_IndexingInBounds ==
    /\ \A visitor \in Visitors :
          LET r == decode_item(cursor, visitor)
          IN /\ r.some <=> remaining(cursor) >= 1
             /\ r.some => remaining(r.c) = remaining(cursor) - 1
             /\ Len(r.c.item_bytes) <= Len(item_bytes)
    /\ LET n == next(cursor)
           num_bytes_before == Len(item_bytes)
           num_bytes_after == Len(n.c.item_bytes)
       IN /\ num_bytes_before - num_bytes_after >= 0
          /\ num_bytes_before - num_bytes_after <= Len(item_bytes)
          /\ (n.some /\ n.res.ok) =>
                Len(CompositeField_bytes(n.res.val)) = num_bytes_before - num_bytes_after
    /\ (last.op \in {"decode_item", "next"} /\ last.some) => remaining(last.pre) >= 1
    /\ last.op # "new" =>
          /\ Len(item_bytes) <= Len(last.pre.item_bytes)
          /\ \A i \in 1..Len(last.calls) :
                last.calls[i].used \in 0..Len(last.pre.item_bytes)

\* next() failed on truncated input in the middle of the slice: bytes were
\* consumed before, bytes are left, and they are too few for the field
C11_Witness ==
    /\ last.op = "next" /\ Failed
    /\ last.res.err = "NotEnoughBytes"
    /\ last.pre.item_bytes # <<>>
    /\ Len(last.pre.item_bytes) < Len(bytes)
    /\ remaining(cursor) = 0

(* C12.  as_tuple() in any state returns a Tuple over exactly             *)
(* bytes_from_undecoded() and exactly the remaining fields, in the same    *)
(* number and order and known by type alone, and leaves the Composite as   *)
(* it was: bytes_from_start(), bytes_from_undecoded(), remaining() and the *)
(* fields are the same after the call, and the same after each item pulled *)
(* from the Tuple, which decodes from the Tuple's own cursor.              *)
C12_AsTupleIsAView ==
    /\ last.op = "as_tuple" =>
          /\ Tuple_bytes_from_undecoded(last.obj) = bytes_from_undecoded(cursor)
          /\ Tuple_remaining(last.obj) = remaining(cursor)
          /\ \A i \in 1..remaining(cursor) : last.obj.fields[i] = fields[i].ty
          /\ cursor = last.pre
    /\ last.op = "Tuple::decode_item" =>
          /\ cursor = last.pre
          /\ last.some <=> Tuple_remaining(last.self) >= 1
          /\ last.some =>
                LET d == decode_with_visitor(last.self.item_bytes, last.self.fields[1],
                                             last.visitor)
                IN /\ last.res = d.res
                   /\ Tuple_bytes_from_undecoded(last.obj) = d.rest
                   /\ Tuple_remaining(last.obj) = Tuple_remaining(last.self) - 1
          /\ \E k \in 0..remaining(cursor) :
                /\ Tuple_remaining(last.obj) = remaining(cursor) - k
                /\ \A i \in 1..Tuple_remaining(last.obj) :
                      last.obj.fields[i] = fields[k + i].ty

\* as_tuple() was called on a cursor that had decoded a field and had a
\* named field left; an item was pulled from the Tuple and took bytes, and
\* the Composite still has its field and its bytes
C12_Witness ==
    /\ last.op = "Tuple::decode_item" /\ Succeeded
    /\ Len(bytes) > Len(item_bytes)
    /\ remaining(cursor) = 1 /\ fields[1].name # NoName
    /\ Tuple_remaining(last.obj) = 0
    /\ Len(Tuple_bytes_from_undecoded(last.obj)) < Len(item_bytes)

C14_FieldViewIsSnapshot ==
    last.op = "CompositeField::decode_with_visitor" =>
       /\ CompositeField_name(last.obj) = CompositeField_name(last.self)
       /\ CompositeField_bytes(last.obj) = CompositeField_bytes(last.self)
       /\ CompositeField_type_id(last.obj) = CompositeField_type_id(last.self)
       /\ cursor = last.pre
       /\ CompositeField_decode_with_visitor(last.obj, last.visitor).res = last.res
       /\ last.visitor = "Ignore" =>
             /\ last.res.ok
             /\ Len(last.calls) = 1
             /\ last.calls[1].used = Len(CompositeField_bytes(last.self))

\* a view over a nested composite of two or more bytes was decoded with
\* ValueVisitor into a value, while the cursor has a field left
C14_Witness ==
    /\ last.op = "CompositeField::decode_with_visitor"
    /\ last.visitor = "Value" /\ last.res.ok
    /\ Resolve(CompositeField_type_id(last.self)).kind = "composite"
    /\ Len(CompositeField_bytes(last.self)) >= 2
    /\ remaining(cursor) = 1

(* C15.  No Ok item after a failure.  Once decode_item or next has        *)
(* returned an error, no later decode_item or next call on the cursor      *)
(* returns an Ok item: each returns None or an error.  Stated for the call *)
(* that follows the failed one, which is a later call.  It does not hold:  *)
(* the failed call has dropped its field (C2), so the call that follows    *)
(* decodes the next field, and returns Ok when the bytes left fit it.      *)
C15_NoItemAfterError ==
    [][ (last.op \in {"decode_item", "next"} /\ Failed) =>
           ~(last'.op \in {"decode_item", "next"} /\ last'.some /\ last'.res.ok) ]_vars

(* C16.  The two decode paths agree.  From a cursor with a field left     *)
(* whose skip succeeds, and for any visitor v, decode_item(v) on the one   *)
(* hand and next() followed by decode_with_visitor(v) on the view yielded  *)
(* on the other return the same result and leave the Composite with the    *)
(* same remaining() and the same bytes_from_undecoded().  Stated for the   *)
(* calls that can be made from each reachable state, and for the view      *)
(* decode that was made, against decode_item on the cursor as it was       *)
(* before the next() that yielded the view.                                *)
C16_DecodePathsAgree ==
    /\ (remaining(cursor) >= 1
          /\ decode_with_visitor(item_bytes, fields[1].ty, "Ignore").res.ok) =>
          \A visitor \in Visitors :
             LET a == decode_item(cursor, visitor)
                 n == next(cursor)
                 b == CompositeField_decode_with_visitor(n.res.val, visitor)
             IN /\ a.some /\ n.some /\ n.res.ok
                /\ a.res = b.res
                /\ remaining(a.c) = remaining(n.c)
                /\ bytes_from_undecoded(a.c) = bytes_from_undecoded(n.c)
    /\ last.op = "CompositeField::decode_with_visitor" =>
          LET view == last.self
              before == [cursor EXCEPT
                           !.item_bytes = CompositeField_bytes(view) \o item_bytes,
                           !.fields = <<view.field>> \o fields]
              a == decode_item(before, last.visitor)
          IN /\ a.some
             /\ a.res = last.res
             /\ remaining(a.c) = remaining(cursor)
             /\ bytes_from_undecoded(a.c) = bytes_from_undecoded(cursor)

\* next() yielded the view of a str whose text is not UTF-8, after a field
\* decoded before; ValueVisitor on the view returned InvalidUtf8, as
\* decode_item(ValueVisitor) does on the field
C16_Witness ==
    /\ last.op = "CompositeField::decode_with_visitor"
    /\ last.visitor = "Value"
    /\ ~last.res.ok /\ last.res.err = "InvalidUtf8"
    /\ Len(CompositeField_bytes(last.self)) = 2
    /\ Len(fields0) = 2 /\ remaining(cursor) = 0
    /\ item_bytes = <<>>

(* C17.  Across any sequence of decode_item, next, skip_decoding and      *)
(* as_tuple calls, successful or failing, bytes_from_start() is the slice  *)
(* it was before the call, hence the slice given to Composite::new, and    *)
(* bytes_from_undecoded() is a suffix of bytes_from_start() no longer than *)
(* it was before the call.                                                 *)
C17_StartFixedTailShrinks ==
    /\ Len(bytes_from_undecoded(cursor)) <= Len(bytes_from_start(cursor))
    /\ bytes_from_undecoded(cursor)
          = Drop(bytes_from_start(cursor),
                 Len(bytes_from_start(cursor)) - Len(bytes_from_undecoded(cursor)))
    /\ last.op = "new" => bytes_from_undecoded(cursor) = bytes_from_start(cursor)
    /\ last.op # "new" =>
          /\ bytes_from_start(cursor) = bytes_from_start(last.pre)
          /\ Len(bytes_from_undecoded(cursor)) <= Len(bytes_from_undecoded(last.pre))

\* as_tuple() was called after a call that took bytes and a call that
\* failed, with bytes still undecoded
C17_Witness ==
    /\ last.op = "as_tuple"
    /\ acc.failed
    /\ acc.total > 0
    /\ bytes_from_undecoded(cursor) # <<>>
    /\ remaining(cursor) = 0

(* C18.  Iteration over a Composite ends.  Of the decode_item and next    *)
(* calls made on a Composite created with n fields, whatever the bytes, at *)
(* most n return Some, Ok or Err; once n have, every call returns None;    *)
(* a call on a cursor with no field left returns None; and skip_decoding   *)
(* makes at most remaining() nested decodes before it returns.             *)
C18_AtMostNItems ==
    /\ acc.items <= Len(fields0)
    /\ acc.items = Len(fields0) =>
          /\ ~next(cursor).some
          /\ \A visitor \in Visitors : ~decode_item(cursor, visitor).some
    /\ (last.op \in {"decode_item", "next"} /\ remaining(last.pre) = 0) => ~last.some
    /\ last.op = "skip_decoding" => Len(last.calls) <= remaining(last.pre)

\* both fields of a Composite were returned as Some, one of them as an
\* error, and the call after them returned None
C18_Witness ==
    /\ Len(fields0) = 2 /\ acc.items = 2
    /\ acc.failed
    /\ last.op \in {"decode_item", "next"} /\ ~last.some
    /\ bytes_from_undecoded(cursor) # <<>>

(* C19.  has_unnamed_fields() returns true exactly when a field not yet   *)
(* decoded has no name.  The fields decoded or skipped before do not count:*)
(* of the fields the Composite was created with, only those from position  *)
(* n - remaining() + 1 on are looked at.  It returns false at              *)
(* remaining() = 0.  Where it returns false before a call it returns false *)
(* after the call, so false is never followed by true.  The call leaves    *)
(* the cursor as it was.                                                   *)
C19_HasUnnamedFields ==
    LET n == Len(fields0)
        k == n - remaining(cursor)
    IN /\ last.op = "has_unnamed_fields" =>
             /\ last.res.val = (\E i \in (k + 1)..n : fields0[i].name = NoName)
             /\ last.res.val = (\E i \in 1..remaining(cursor) : fields[i].name = NoName)
             /\ cursor = last.pre
       /\ remaining(cursor) = 0 => ~has_unnamed_fields(cursor).res
       /\ has_unnamed_fields(cursor).c = cursor
       /\ (last.op # "new" /\ ~has_unnamed_fields(last.pre).res) =>
             ~has_unnamed_fields(cursor).res

\* has_unnamed_fields() returned false on a cursor with a named field left
\* whose unnamed first field had been decoded
C19_Witness ==
    /\ last.op = "has_unnamed_fields"
    /\ last.res.val = FALSE
    /\ Len(fields0) = 2 /\ fields0[1].name = NoName
    /\ remaining(cursor) = 1 /\ fields[1].name # NoName

====
